---- MODULE Spec2Model ----
(***************************************************************************)
(* Order status workflow and material-ordering safety engine.              *)
(*                                                                         *)
(* State: the orders table, the status_history table, the material order   *)
(* audit log, the wall clock, and the request being answered (its inputs   *)
(* and what it returns).  One action per request handler; a store call of  *)
(* a handler may fail (a transient store error), which is an input of the  *)
(* action.  Requests are served one at a time: the answer stays in lastOp  *)
(* until Respond hands it to the caller.  inFlight holds the               *)
(* processMaterialOrder calls that run concurrently, where the model lets  *)
(* them interleave.  Beside the whole system (Spec), smaller               *)
(* specifications exercise one part of it on inputs of their own: the      *)
(* routes, the status route over the whole enumeration, material ordering  *)
(* on mixed batches, the authorization gate, the detector after its query, *)
(* and the similarity functions.                                           *)
(***************************************************************************)
EXTENDS Integers, Sequences, FiniteSets, TLC

VARIABLES orders, statusHistory, materialOrderHistory, now, served, lastOp,
          inFlight

vars == <<orders, statusHistory, materialOrderHistory, now, served, lastOp, inFlight>>

(***************************************************************************)
(* Bounds of the model.                                                    *)
(***************************************************************************)
MaxRequests == 2     \* requests served after the initial state
MaxTicks == 1        \* clock advances
TickHours == 13      \* hours per clock advance

(***************************************************************************)
(* Program constants.                                                      *)
(***************************************************************************)
MANAGEMENT_OVERRIDE_CODE == "MGMT_OVERRIDE_2025_MATERIALS"
DUPLICATE_THRESHOLD_HOURS == 24
MAX_DAILY_ORDERS_PER_VENDOR == 5

orderStatusEnum ==
    {"ORDER_PROCESSED", "MATERIALS_ORDERED", "MATERIALS_ARRIVED", "FRAME_CUT",
     "MAT_CUT", "PREPPED", "READY_FOR_PICKUP", "COMPLETED", "PICKED_UP",
     "MYSTERY_UNCLAIMED"}

\* JavaScript's undefined, for string-valued slots
Undefined == "undefined"

(***************************************************************************)
(* Inputs the requests are drawn from.                                     *)
(***************************************************************************)
OrderIds == {"o1", "o2"}            \* ids an order can be created under
MissingId == "o9"                   \* an id no order is ever created under
BatchIds == OrderIds \cup {MissingId}
UserIds == {"u1"}
SessionUsers == {"u1"}              \* req.session?.user?.id of an authenticated request
\* two statuses of the enum and a string that is none of them
RequestStatuses == {"MATERIALS_ORDERED", "READY_FOR_PICKUP", "NOT_A_STATUS"}
NotesSamples == {"Frame: R123"}
OverrideCodes == {Undefined, "WRONG_CODE", MANAGEMENT_OVERRIDE_CODE}
OverrideReasons == {"vendor lost the shipment"}

\* the orderIds arguments: empty, one id, an id with a missing id, one id twice
Batches == {<<>>, <<"o1">>, <<"o2">>, <<"o1", "o9">>, <<"o1", "o1">>}
\* the :id of the order-update requests
PatchIds == {"o1", MissingId}

Range(s) == {s[i] : i \in DOMAIN s}

(***************************************************************************)
(* Order Store.                                                            *)
(***************************************************************************)
\* storage.getOrder: the row, or undefined when no row has the id
NoOrder == [found |-> FALSE]

\* variant that answers a blank row for an id no row has
getOrder_BlankRow(ords, id) ==
    IF id \in DOMAIN ords
    THEN [found |-> TRUE, id |-> id, status |-> ords[id].status, notes |-> ords[id].notes]
    ELSE [found |-> TRUE, id |-> id, status |-> "ORDER_PROCESSED", notes |-> ""]

getOrder(ords, id) ==
    IF id \in DOMAIN ords
    THEN [found |-> TRUE, id |-> id, status |-> ords[id].status, notes |-> ords[id].notes]
    ELSE NoOrder

\* variant that leaves an order that was picked up as it is
updateOrder_PickedUpIsFinal(ords, id, status) ==
    IF id \in DOMAIN ords /\ ords[id].status # "PICKED_UP"
    THEN [ords EXCEPT ![id].status = status]
    ELSE ords

\* storage.updateOrder: UPDATE ... WHERE id = ... RETURNING; a missing id
\* updates no row and returns undefined, it does not throw
updateOrder(ords, id, status) ==
    IF id \in DOMAIN ords
    THEN [ords EXCEPT ![id].status = status]
    ELSE ords

\* storage.createOrder
createOrder(ords, id, status, notes) ==
    [i \in DOMAIN ords \cup {id} |->
        IF i = id THEN [status |-> status, notes |-> notes] ELSE ords[i]]

\* storage.createStatusHistory
createStatusHistory(hist, orderId, fromStatus, toStatus, changedBy) ==
    Append(hist, [orderId |-> orderId, fromStatus |-> fromStatus,
                  toStatus |-> toStatus, changedBy |-> changedBy])

HistoryOf(hist, id) == SelectSeq(hist, LAMBDA h : h.orderId = id)

(***************************************************************************)
(* Material signature of an order (extractMaterialsFromNotes).  The four   *)
(* patterns, evaluated on the notes the requests are drawn from.           *)
(***************************************************************************)
\* notes.match(/Frame: (R\d+)/)
FullNotes == "Frame: R123, Frame: L9, Mat: C7 Museum Glass"
RomaMatch(notes) ==
    IF notes \in {"Frame: R123", FullNotes} THEN <<"R123">>
    ELSE IF notes = "Frame: R456" THEN <<"R456">>
    ELSE <<>>
\* notes.match(/Frame: (L\d+)/)
LarsonMatch(notes) == IF notes = FullNotes THEN <<"L9">> ELSE <<>>
\* notes.match(/Mat: (C\d+)/)
CrescentMatch(notes) ==
    IF notes \in {"Mat: C7 Museum Glass", FullNotes} THEN <<"C7">> ELSE <<>>
\* notes.includes('Museum Glass')
IncludesMuseumGlass(notes) == notes \in {"Mat: C7 Museum Glass", FullNotes}

Material(vendor, item) == [vendor |-> vendor, item |-> item]

extractMaterialsFromNotes(notes) ==
    (IF RomaMatch(notes) # <<>>
        THEN <<Material("Roma Moulding", RomaMatch(notes)[1])>> ELSE <<>>)
    \o (IF LarsonMatch(notes) # <<>>
        THEN <<Material("Larson Juhl", LarsonMatch(notes)[1])>> ELSE <<>>)
    \o (IF CrescentMatch(notes) # <<>>
        THEN <<Material("Crescent", CrescentMatch(notes)[1])>> ELSE <<>>)
    \o (IF IncludesMuseumGlass(notes)
        THEN <<Material("Guardian Glass", "Museum Glass")>> ELSE <<>>)

\* `${m.vendor}:${m.item}`
MaterialKey(m) == m.vendor \o ":" \o m.item

\* variant that measures how much of the first list the second one covers
calculateMaterialSimilarity_OfFirst(materials1, materials2) ==
    IF Len(materials1) = 0 \/ Len(materials2) = 0
    THEN [num |-> 0, den |-> 1]
    ELSE LET set1 == {MaterialKey(m) : m \in Range(materials1)}
             set2 == {MaterialKey(m) : m \in Range(materials2)}
         IN [num |-> Cardinality(set1 \cap set2), den |-> Cardinality(set1)]

\* intersection.size / union.size as a fraction; 0 when either list is empty
calculateMaterialSimilarity(materials1, materials2) ==
    IF Len(materials1) = 0 \/ Len(materials2) = 0
    THEN [num |-> 0, den |-> 1]
    ELSE LET set1 == {MaterialKey(m) : m \in Range(materials1)}
             set2 == {MaterialKey(m) : m \in Range(materials2)}
         IN [num |-> Cardinality(set1 \cap set2), den |-> Cardinality(set1 \cup set2)]

\* similarity > 0.8
Above80(sim) == sim.num * 10 > sim.den * 8

(***************************************************************************)
(* Material order audit log.                                               *)
(***************************************************************************)
\* the payload logMaterialOrder stores: {timestamp, userId, wasOverridden}
OrderDetailsJson(t, userId, wasOverridden) ==
    [timestamp |-> t, userId |-> userId, wasOverridden |-> wasOverridden]

\* JSON.parse(recentOrder.orderDetails).materials || []
DetailsMaterials(details) ==
    IF "materials" \in DOMAIN details THEN details.materials ELSE <<>>

\* JSON.parse(order.orderDetails).vendor || 'Unknown'
DetailsVendor(details) ==
    IF "vendor" \in DOMAIN details THEN details.vendor ELSE "Unknown"

\* the row logMaterialOrder inserts
AuditRecord(orderId, userId, t, wasOverridden) ==
    [orderId |-> orderId, orderedBy |-> userId, orderedAt |-> t,
     wasOverridden |-> wasOverridden,
     orderDetails |-> OrderDetailsJson(t, userId, wasOverridden)]

(***************************************************************************)
(* Duplicate / risk detector (checkDuplicateOrders).                       *)
(***************************************************************************)
\* `this.DUPLICATE_THRESHOLD_HOURS`: the field is declared static, so it
\* lives on the class and the read through the instance yields undefined
ThisDuplicateThresholdHours == Undefined

\* cutoffTime.setHours(cutoffTime.getHours() - threshold): a number minus
\* undefined is NaN, and setHours(NaN) leaves an Invalid Date
InvalidDate == [valid |-> FALSE, t |-> 0]
CutoffTime(t) ==
    IF ThisDuplicateThresholdHours = Undefined
    THEN InvalidDate
    ELSE [valid |-> TRUE, t |-> t - DUPLICATE_THRESHOLD_HOURS]

\* the rows with orderedAt >= cutoffTime, when the store answers the query.
\* What the driver does with an Invalid Date bound is not fixed by the
\* program: it either refuses the bound (the awaited query rejects, fault
\* "bound") or sends a bound that compares false with every row
RecentOrders(log, cutoff) ==
    SelectSeq(log, LAMBDA r : cutoff.valid /\ r.orderedAt >= cutoff.t)

\* for (newOrder) for (recentOrder) if (similarity > 0.8) return true
checkSimilarMaterials(newOrders, recentOrders) ==
    \E i \in DOMAIN newOrders : \E j \in DOMAIN recentOrders :
        /\ newOrders[i].found
        /\ Above80(calculateMaterialSimilarity(
               extractMaterialsFromNotes(newOrders[i].notes),
               DetailsMaterials(recentOrders[j].orderDetails)))

\* vendorCounts.get(vendor) || 0
VendorCount(recentOrders, vendor) ==
    Cardinality({j \in DOMAIN recentOrders :
                    DetailsVendor(recentOrders[j].orderDetails) = vendor})

checkVendorOrderLimits(newOrders, recentOrders) ==
    \E i \in DOMAIN newOrders :
        /\ newOrders[i].found
        /\ \E m \in Range(extractMaterialsFromNotes(newOrders[i].notes)) :
              VendorCount(recentOrders, m.vendor) >= MAX_DAILY_ORDERS_PER_VENDOR

\* the result of the catch block
FailSafeCheck ==
    [isDuplicate |-> FALSE, existingOrders |-> <<>>,
     requiresOverride |-> TRUE, riskLevel |-> "CRITICAL"]

\* at most one store call of a request fails: <<call, batch position>>
NoFault == <<"none", 0>>

\* variant in which a rejected lookup is not an exception of the try block
CheckThrows_QueryOnly(fault) == fault[1] = "query"

\* does the try block throw: the awaited query rejects, or Promise.all
\* rejects because one lookup did
CheckThrows(fault) == fault[1] \in {"query", "lookup", "bound"}

\* variant that reports every recent record as an existing order
DuplicateOrderCheck_AllRecent(orderIds, recentOrders, orderDetails) ==
    LET duplicateOrderIds ==
            SelectSeq(orderIds, LAMBDA id :
                \E j \in DOMAIN recentOrders : recentOrders[j].orderId = id)
        riskLevel ==
            IF Len(duplicateOrderIds) > 0 THEN "CRITICAL"
            ELSE IF checkSimilarMaterials(orderDetails, recentOrders) THEN "HIGH"
            ELSE IF checkVendorOrderLimits(orderDetails, recentOrders) THEN "MEDIUM"
            ELSE "LOW"
    IN [isDuplicate |-> Len(duplicateOrderIds) > 0,
        existingOrders |-> recentOrders,
        requiresOverride |-> riskLevel # "LOW",
        riskLevel |-> riskLevel]

\* the DuplicateOrderCheck the try block builds from the batch, the rows the
\* query returned and the orders the lookups returned
DuplicateOrderCheck(orderIds, recentOrders, orderDetails) ==
    LET duplicateOrderIds ==
            SelectSeq(orderIds, LAMBDA id :
                \E j \in DOMAIN recentOrders : recentOrders[j].orderId = id)
        riskLevel ==
            IF Len(duplicateOrderIds) > 0 THEN "CRITICAL"
            ELSE IF checkSimilarMaterials(orderDetails, recentOrders) THEN "HIGH"
            ELSE IF checkVendorOrderLimits(orderDetails, recentOrders) THEN "MEDIUM"
            ELSE "LOW"
    IN [isDuplicate |-> Len(duplicateOrderIds) > 0,
        existingOrders |->
            SelectSeq(recentOrders, LAMBDA r : r.orderId \in Range(duplicateOrderIds)),
        requiresOverride |-> riskLevel # "LOW",
        riskLevel |-> riskLevel]

checkDuplicateOrders(orderIds, ords, log, t, fault) ==
    IF CheckThrows(fault)
    THEN FailSafeCheck
    ELSE DuplicateOrderCheck(orderIds, RecentOrders(log, CutoffTime(t)),
                             [i \in DOMAIN orderIds |-> getOrder(ords, orderIds[i])])

(***************************************************************************)
(* Override authorization gate.                                            *)
(***************************************************************************)
\* variant that accepts every code
verifyManagementAuthorization_AnyCode(overrideCode) == overrideCode # Undefined

\* variant that compares with a code that was retired
verifyManagementAuthorization_RetiredCode(overrideCode) == overrideCode = "WRONG_CODE"

\* overrideCode === MANAGEMENT_OVERRIDE_CODE
verifyManagementAuthorization(overrideCode) ==
    overrideCode = MANAGEMENT_OVERRIDE_CODE

\* logOverrideAttempt: one console line, nothing else
\* `Management override ${successful ? 'authorized' : 'denied'} for user: ${userId}, Reason: ${reason}`
logOverrideAttempt(userId, reason, successful) ==
    <<"Management override", IF successful THEN "authorized" ELSE "denied",
      "for user:", userId, "Reason:", reason>>

\* the console lines of one verifyManagementAuthorization call.  On a
\* mismatch the function returns from its first branch; logOverrideAttempt
\* with successful = false is called from the catch block only, and nothing
\* in the try block throws (its one callee writes to the console)
AuthorizationConsole(overrideCode, userId, reason) ==
    IF ~verifyManagementAuthorization(overrideCode)
    THEN << <<"Invalid override code attempted by user:", userId>> >>
    ELSE << logOverrideAttempt(userId, reason, TRUE),
            <<"Management override authorized by:", userId, "Reason:", reason>> >>

(***************************************************************************)
(* Material ordering orchestrator (processMaterialOrder).                  *)
(***************************************************************************)
\* !overrideCode
NoOverrideCode(overrideCode) == overrideCode = Undefined

\* variant that blocks exact duplicates only
BlockedForOverride_DuplicatesOnly(check, overrideCode) ==
    check.isDuplicate /\ NoOverrideCode(overrideCode)

\* step 2: duplicateCheck.requiresOverride && !overrideCode
BlockedForOverride(check, overrideCode) ==
    check.requiresOverride /\ NoOverrideCode(overrideCode)

\* step 3: duplicateCheck.requiresOverride && overrideCode, and the gate says no
RejectedAsUnauthorized(check, overrideCode) ==
    /\ check.requiresOverride
    /\ ~NoOverrideCode(overrideCode)
    /\ ~verifyManagementAuthorization(overrideCode)

\* step 4, one task per batch entry: when updateOrder throws, the task is a
\* failure; otherwise the status is written and logMaterialOrder runs, which
\* swallows a failure of its insert
TaskSucceeds(i, fault) == fault # <<"update", i>>

\* variant in which the first failed task ends the batch
RECURSIVE OrdersAfter_AbortOnFailure(_, _, _, _)
OrdersAfter_AbortOnFailure(ords, orderIds, i, fault) ==
    IF i > Len(orderIds) \/ ~TaskSucceeds(i, fault) THEN ords
    ELSE OrdersAfter_AbortOnFailure(
            updateOrder(ords, orderIds[i], "MATERIALS_ORDERED"),
            orderIds, i + 1, fault)

RECURSIVE OrdersAfter(_, _, _, _)
OrdersAfter(ords, orderIds, i, fault) ==
    IF i > Len(orderIds) THEN ords
    ELSE OrdersAfter(
            IF TaskSucceeds(i, fault)
            THEN updateOrder(ords, orderIds[i], "MATERIALS_ORDERED")
            ELSE ords,
            orderIds, i + 1, fault)

\* logMaterialOrder(orderId, userId, overrideCode ? true : false)
logMaterialOrder(log, orderId, userId, wasOverridden, t, insertFails) ==
    IF insertFails THEN log
    ELSE Append(log, AuditRecord(orderId, userId, t, wasOverridden))

\* variant that looks at the audit log again before each insert and skips an
\* order that has a record by then
RECURSIVE AuditAfter_SkipRecorded(_, _, _, _, _, _, _)
AuditAfter_SkipRecorded(log, orderIds, i, userId, overrideCode, t, fault) ==
    IF i > Len(orderIds) THEN log
    ELSE AuditAfter_SkipRecorded(
            IF \E j \in DOMAIN log : log[j].orderId = orderIds[i]
            THEN log
            ELSE Append(log, [orderId |-> orderIds[i], orderedBy |-> userId,
                              orderedAt |-> t,
                              wasOverridden |-> overrideCode # Undefined,
                              orderDetails |->
                                  [timestamp |-> t, userId |-> userId,
                                   wasOverridden |-> overrideCode # Undefined]]),
            orderIds, i + 1, userId, overrideCode, t, fault)

RECURSIVE AuditAfter(_, _, _, _, _, _, _)
AuditAfter(log, orderIds, i, userId, overrideCode, t, fault) ==
    IF i > Len(orderIds) THEN log
    ELSE AuditAfter(
            IF TaskSucceeds(i, fault)
            THEN logMaterialOrder(log, orderIds[i], userId,
                                  ~NoOverrideCode(overrideCode), t,
                                  fault = <<"insert", i>>)
            ELSE log,
            orderIds, i + 1, userId, overrideCode, t, fault)

\* results of Promise.all: {orderId, success}
TaskResults(orderIds, fault) ==
    [i \in DOMAIN orderIds |->
        [orderId |-> orderIds[i], success |-> TaskSucceeds(i, fault)]]

successfulOrders(results) == SelectSeq(results, LAMBDA r : r.success)
failedOrders(results) == SelectSeq(results, LAMBDA r : ~r.success)

\* successfulOrders.length > 0
BatchSuccess(results) == Len(successfulOrders(results)) > 0

\* `Successfully ordered materials for ${M} orders${F > 0 ? `, ${F} failed` : ''}
\*  ${overrideCode ? ' (Management Override Used)' : ''}`
ProcessedMessage(results, overrideCode) ==
    <<"Successfully ordered materials for", Len(successfulOrders(results)), "orders">>
    \o (IF Len(failedOrders(results)) > 0
        THEN <<",", Len(failedOrders(results)), "failed">> ELSE <<>>)
    \o (IF ~NoOverrideCode(overrideCode)
        THEN <<"(Management Override Used)">> ELSE <<>>)

\* `MANAGEMENT OVERRIDE REQUIRED: ${riskLevel} risk detected. ${isDuplicate ? ... : ...}`
OverrideRequiredMessage(check) ==
    <<"MANAGEMENT OVERRIDE REQUIRED:", check.riskLevel, "risk detected.",
      IF check.isDuplicate THEN "Duplicate orders found."
                           ELSE "Similar orders recently placed.">>

\* the result of the outer catch block
SystemErrorResult ==
    [success |-> FALSE,
     message |-> <<"Material ordering failed due to system error">>,
     duplicateCheck |-> FailSafeCheck]

\* the store calls checkDuplicateOrders makes: the audit-log query, then,
\* when the query answered, one getOrder per batch entry
DetectorCalls(orderIds, fault) ==
    <<"query">>
    \o (IF fault[1] \in {"query", "bound"} THEN <<>>
        ELSE [i \in DOMAIN orderIds |-> "getOrder"])

\* the store calls of step 4: per batch entry updateOrder, then the audit
\* insert when updateOrder did not throw
RECURSIVE ProcessingCalls(_, _, _)
ProcessingCalls(orderIds, i, fault) ==
    IF i > Len(orderIds) THEN <<>>
    ELSE (IF TaskSucceeds(i, fault) THEN <<"updateOrder", "insert">>
                                    ELSE <<"updateOrder">>)
         \o ProcessingCalls(orderIds, i + 1, fault)

\* the body of the outer try: what one call does to the store and what it
\* returns.  body.given is FALSE when the caller passes no array: reading
\* orderIds.length then throws
TryProcessMaterialOrder(ords, log, t, body, userId, overrideCode, fault) ==
    LET orderIds == body.ids
        check == checkDuplicateOrders(orderIds, ords, log, t, fault)
        results == TaskResults(orderIds, fault)
    IN
    IF ~body.given
    THEN [orders |-> ords, log |-> log, step |-> "threw", calls |-> <<>>,
          result |-> [threw |-> TRUE]]
    ELSE IF BlockedForOverride(check, overrideCode)
    THEN [orders |-> ords, log |-> log, step |-> "blocked",
          calls |-> DetectorCalls(orderIds, fault),
          result |-> [success |-> FALSE,
                      message |-> OverrideRequiredMessage(check),
                      requiresOverride |-> TRUE,
                      duplicateCheck |-> check]]
    ELSE IF RejectedAsUnauthorized(check, overrideCode)
    THEN [orders |-> ords, log |-> log, step |-> "unauthorized",
          calls |-> DetectorCalls(orderIds, fault),
          result |-> [success |-> FALSE,
                      message |-> <<"UNAUTHORIZED: Invalid management override code">>,
                      requiresOverride |-> TRUE,
                      duplicateCheck |-> check]]
    ELSE [orders |-> OrdersAfter(ords, orderIds, 1, fault),
          log |-> AuditAfter(log, orderIds, 1, userId, overrideCode, t, fault),
          step |-> "processed",
          calls |-> DetectorCalls(orderIds, fault) \o ProcessingCalls(orderIds, 1, fault),
          result |-> [success |-> BatchSuccess(results),
                      message |-> ProcessedMessage(results, overrideCode),
                      duplicateCheck |-> check]]

\* variant without the outer catch: an exception of the try body reaches the
\* caller
processMaterialOrder_NoCatch(ords, log, t, body, userId, overrideCode, fault) ==
    TryProcessMaterialOrder(ords, log, t, body, userId, overrideCode, fault)

\* try { ... } catch (error) { return the system-error result }
processMaterialOrder(ords, log, t, body, userId, overrideCode, fault) ==
    LET try == TryProcessMaterialOrder(ords, log, t, body, userId, overrideCode, fault)
    IN IF try.step = "threw"
       THEN [orders |-> ords, log |-> log, step |-> "catch", calls |-> <<>>,
             result |-> SystemErrorResult]
       ELSE try

(***************************************************************************)
(* The system.                                                             *)
(***************************************************************************)
Idle == [name |-> "idle"]

\* orders.status is a text column: it holds whatever string was written
TypeOK ==
    /\ DOMAIN orders \subseteq OrderIds
    /\ \A id \in DOMAIN orders : orders[id].status \in orderStatusEnum \cup RequestStatuses
    /\ now \in 0..(MaxTicks * TickHours)
    /\ served \in 0..MaxRequests

\* the orders of `ids`, each as POST /api/orders leaves it, o1 before o2
RECURSIVE CreatedOrders(_)
CreatedOrders(ids) ==
    IF ids = {} THEN [orders |-> <<>>, history |-> <<>>]
    ELSE LET id == IF "o2" \in ids THEN "o2" ELSE CHOOSE i \in ids : TRUE
             rest == CreatedOrders(ids \ {id})
         IN [orders |-> createOrder(rest.orders, id, "ORDER_PROCESSED", "Frame: R123"),
             history |-> createStatusHistory(rest.history, id, Undefined,
                                             "ORDER_PROCESSED", "u1")]

\* the store holds some orders created earlier; no materials were ordered yet
Init ==
    /\ \E ids \in SUBSET OrderIds :
          /\ orders = CreatedOrders(ids).orders
          /\ statusHistory = CreatedOrders(ids).history
    /\ materialOrderHistory = <<>>
    /\ now = 0
    /\ served = 0
    /\ lastOp = Idle
    /\ inFlight = <<>>

\* a request is accepted when the server is idle
AcceptWithin(budget) ==
    /\ lastOp = Idle
    /\ served < budget
    /\ served' = served + 1

Accept == AcceptWithin(MaxRequests)

\* the wall clock advances
Tick ==
    /\ lastOp = Idle
    /\ now + TickHours <= MaxTicks * TickHours
    /\ now' = now + TickHours
    /\ UNCHANGED <<orders, statusHistory, materialOrderHistory, served, lastOp, inFlight>>

\* the answer of the request reaches its caller
Respond ==
    /\ lastOp # Idle
    /\ lastOp' = Idle
    /\ UNCHANGED <<orders, statusHistory, materialOrderHistory, now, served, inFlight>>

\* req.session?.user?.id || 'system'
ChangedBy(user) == IF user = Undefined THEN "system" ELSE user

\* variant in which the status of the request body wins over the default
OrderDataStatus_BodyWins(requested) ==
    IF requested = Undefined THEN "ORDER_PROCESSED" ELSE requested

\* orderData = { ...req.body, ..., status: 'ORDER_PROCESSED' }: the literal
\* comes after the spread and replaces a status of the request body
OrderDataStatus(requested) == "ORDER_PROCESSED"

\* POST /api/orders, the status of the request body drawn from `statuses`
CreateRequest(statuses) ==
    \E id \in OrderIds, notes \in NotesSamples, user \in SessionUsers,
       requested \in statuses,
       fault \in {"none", "createOrder", "createStatusHistory"} :
        LET rejected == id \in DOMAIN orders \/ fault = "createOrder"
        IN
        /\ Accept
        \* a fault is named only where the handler makes that store call
        /\ fault = "createStatusHistory" => id \notin DOMAIN orders
        /\ orders' = IF rejected THEN orders
                     ELSE createOrder(orders, id, OrderDataStatus(requested), notes)
        /\ statusHistory' =
              IF rejected \/ fault = "createStatusHistory" THEN statusHistory
              ELSE createStatusHistory(statusHistory, id, Undefined,
                                       "ORDER_PROCESSED", ChangedBy(user))
        /\ lastOp' = [name |-> "createOrder", id |-> id, requested |-> requested,
                      fault |-> fault,
                      http |-> IF rejected \/ fault # "none" THEN 500 ELSE 201]
        /\ UNCHANGED <<materialOrderHistory, now, inFlight>>

\* a creation request whose body names no status
CreateOrder == CreateRequest({Undefined})

\* PATCH /api/orders/:id
PatchOrder ==
    \E id \in PatchIds, status \in RequestStatuses \cup {Undefined},
       user \in SessionUsers,
       fault \in {"none", "getOrder", "createStatusHistory", "updateOrder"} :
        LET currentOrder == getOrder(orders, id)
            statusChanges == status # Undefined /\ status # currentOrder.status
            http == IF fault = "getOrder" THEN 500
                    ELSE IF ~currentOrder.found THEN 404
                    ELSE IF fault = "createStatusHistory" /\ statusChanges THEN 500
                    ELSE IF fault = "updateOrder" THEN 500
                    ELSE 200
            wroteHistory == /\ fault \notin {"getOrder", "createStatusHistory"}
                            /\ currentOrder.found /\ statusChanges
            wroteOrder == http = 200 /\ status # Undefined
        IN
        /\ Accept
        \* a fault is named only where the handler makes that store call
        /\ fault = "createStatusHistory" => currentOrder.found /\ statusChanges
        /\ fault = "updateOrder" => currentOrder.found
        /\ statusHistory' =
              IF wroteHistory
              THEN createStatusHistory(statusHistory, id, currentOrder.status,
                                       status, ChangedBy(user))
              ELSE statusHistory
        /\ orders' = IF wroteOrder THEN updateOrder(orders, id, status) ELSE orders
        \* this handler sends no notification
        /\ lastOp' = [name |-> "patchOrder", id |-> id, status |-> status,
                      fault |-> fault, http |-> http, dispatched |-> FALSE]
        /\ UNCHANGED <<materialOrderHistory, now, inFlight>>

\* notificationService.sendStatusUpdate(completeOrder).catch(...): the promise
\* rejects, or the call itself throws before .catch is attached (the
\* NotificationService class defines no sendStatusUpdate: calling it is a
\* TypeError)
SendStatusUpdateFailures == {"sendStatusUpdate rejects", "sendStatusUpdate throws"}

\* PATCH /api/orders/:id/status, the :id drawn from `ids` and the status of
\* the request body from `statuses`
StatusRequest(ids, statuses) ==
    \E id \in ids, status \in statuses, user \in SessionUsers,
       fault \in {"none", "getOrder", "updateOrder", "createStatusHistory"}
                 \cup SendStatusUpdateFailures :
        LET currentOrder == getOrder(orders, id)
            \* a rejected promise ends in .catch after the response; an
            \* exception of the call itself ends in the handler's catch
            http == IF fault = "getOrder" THEN 500
                    ELSE IF ~currentOrder.found THEN 404
                    ELSE IF fault \in {"none", "sendStatusUpdate rejects"} THEN 200
                    ELSE 500
            wroteOrder == /\ fault \notin {"getOrder", "updateOrder"}
                          /\ currentOrder.found
            wroteHistory == wroteOrder /\ fault # "createStatusHistory"
        IN
        /\ Accept
        \* a fault is named only where the handler makes that call
        /\ fault \notin {"none", "getOrder"} => currentOrder.found
        /\ orders' = IF wroteOrder THEN updateOrder(orders, id, status) ELSE orders
        /\ statusHistory' =
              IF wroteHistory
              THEN createStatusHistory(statusHistory, id, currentOrder.status,
                                       status, ChangedBy(user))
              ELSE statusHistory
        \* sendStatusUpdate is called once both writes are done
        /\ lastOp' = [name |-> "patchOrderStatus", id |-> id, status |-> status,
                      fault |-> fault, http |-> http, dispatched |-> wroteHistory]
        /\ UNCHANGED <<materialOrderHistory, now, inFlight>>

PatchOrderStatus == StatusRequest(PatchIds, RequestStatuses)

BatchInputs ==
    {[given |-> TRUE, ids |-> b] : b \in Batches} \cup {[given |-> FALSE, ids |-> <<>>]}

\* what can reject in one processMaterialOrder call: a store call that fails
\* (the audit-log query and one getOrder per batch entry in the detector, then
\* one updateOrder and one audit insert per batch entry), or the query whose
\* Invalid Date bound the driver refuses
Faults(body) ==
    IF body.given
    THEN {NoFault, <<"query", 0>>}
         \cup (IF CutoffTime(now).valid THEN {} ELSE {<<"bound", 0>>})
         \cup ({"lookup", "update", "insert"} \X DOMAIN body.ids)
    ELSE {NoFault}

\* materialOrderingService.processMaterialOrder(orderIds, userId, overrideCode, overrideReason)
\* with the arguments drawn from the given sets
MaterialOrderRequest(bodies, codes, budget) ==
    \E body \in bodies, userId \in UserIds,
       overrideCode \in codes, overrideReason \in OverrideReasons :
    \E fault \in Faults(body) :
        LET out == processMaterialOrder(orders, materialOrderHistory, now, body,
                                        userId, overrideCode, fault)
        IN
        /\ AcceptWithin(budget)
        \* a fault is named only where the call makes that store call
        /\ fault[1] \in {"update", "insert"} => out.step = "processed"
        /\ orders' = out.orders
        /\ materialOrderHistory' = out.log
        /\ lastOp' = [name |-> "processMaterialOrder", body |-> body,
                      userId |-> userId, overrideCode |-> overrideCode,
                      fault |-> fault, step |-> out.step, calls |-> out.calls,
                      result |-> out.result]
        /\ UNCHANGED <<statusHistory, now, inFlight>>

ProcessMaterialOrder == MaterialOrderRequest(BatchInputs, OverrideCodes, MaxRequests)

Next ==
    \/ Tick
    \/ Respond
    \/ CreateOrder
    \/ PatchOrder
    \/ PatchOrderStatus
    \/ ProcessMaterialOrder

Spec == Init /\ [][Next]_vars

(***************************************************************************)
(* Material ordering alone, on two orders of one vendor with different     *)
(* frames, long enough for a vendor to reach the daily cap.                *)
(***************************************************************************)
MaxVendorRequests == 3

VendorBatches ==
    {[given |-> TRUE, ids |-> b] : b \in {<<"o1">>, <<"o1", "o1">>, <<"o2">>}}

InitVendor ==
    /\ orders = createOrder(createOrder(<<>>, "o1", "ORDER_PROCESSED", "Frame: R123"),
                            "o2", "ORDER_PROCESSED", "Frame: R456")
    /\ statusHistory =
          createStatusHistory(
              createStatusHistory(<<>>, "o1", Undefined, "ORDER_PROCESSED", "u1"),
              "o2", Undefined, "ORDER_PROCESSED", "u1")
    /\ materialOrderHistory = <<>>
    /\ now = 0
    /\ served = 0
    /\ lastOp = Idle
    /\ inFlight = <<>>

OrderMaterials ==
    MaterialOrderRequest(VendorBatches, {Undefined, MANAGEMENT_OVERRIDE_CODE},
                         MaxVendorRequests)

NextVendor ==
    \/ Tick
    \/ Respond
    \/ OrderMaterials

SpecVendor == InitVendor /\ [][NextVendor]_vars

(***************************************************************************)
(* Concurrent processMaterialOrder calls.  A call suspends at each await:  *)
(* the detector (steps 1 to 3 follow without another store call), and the  *)
(* store writes of step 4, taken here one batch entry at a time.           *)
(***************************************************************************)
RaceCalls == {"c1", "c2"}
RaceBatches == {<<"o1">>, <<"o1", "o2">>}
RaceCodes == {Undefined, MANAGEMENT_OVERRIDE_CODE}

InitRace ==
    /\ orders = CreatedOrders(OrderIds).orders
    /\ statusHistory = CreatedOrders(OrderIds).history
    /\ materialOrderHistory = <<>>
    /\ now = 0
    /\ served = 0
    /\ lastOp = Idle
    /\ inFlight = <<>>

\* a caller invokes processMaterialOrder
StartCall(c) ==
    /\ c \notin DOMAIN inFlight
    /\ \E ids \in RaceBatches, userId \in UserIds, overrideCode \in RaceCodes :
          inFlight' = [d \in DOMAIN inFlight \cup {c} |->
                          IF d = c
                          THEN [pc |-> "check", ids |-> ids, userId |-> userId,
                                overrideCode |-> overrideCode]
                          ELSE inFlight[d]]
    /\ UNCHANGED <<orders, statusHistory, materialOrderHistory, now, served, lastOp>>

\* steps 1 to 3: the detector answers from the audit log as it is now, and
\* the call returns (blocked, unauthorized) or goes on to step 4
CheckStep(c) ==
    /\ c \in DOMAIN inFlight
    /\ inFlight[c].pc = "check"
    /\ \E fault \in {NoFault, <<"bound", 0>>} :
          LET call == inFlight[c]
              check == checkDuplicateOrders(call.ids, orders, materialOrderHistory,
                                            now, fault)
              stopped == \/ BlockedForOverride(check, call.overrideCode)
                         \/ RejectedAsUnauthorized(check, call.overrideCode)
          IN inFlight' =
                [inFlight EXCEPT ![c] =
                    [pc |-> IF stopped THEN "done" ELSE "process",
                     ids |-> call.ids, userId |-> call.userId,
                     overrideCode |-> call.overrideCode,
                     check |-> check,
                     recordsAtCheck |-> Len(materialOrderHistory),
                     next |-> 1]]
    /\ UNCHANGED <<orders, statusHistory, materialOrderHistory, now, served, lastOp>>

\* step 4 for the next batch entry: updateOrder, then logMaterialOrder
ProcessEntry(c) ==
    /\ c \in DOMAIN inFlight
    /\ inFlight[c].pc = "process"
    /\ inFlight[c].next <= Len(inFlight[c].ids)
    /\ LET call == inFlight[c]
           entry == <<call.ids[call.next]>>
       IN /\ orders' = OrdersAfter(orders, entry, 1, NoFault)
          /\ materialOrderHistory' =
                AuditAfter(materialOrderHistory, entry, 1, call.userId,
                           call.overrideCode, now, NoFault)
    /\ inFlight' = [inFlight EXCEPT ![c].next = @ + 1]
    /\ UNCHANGED <<statusHistory, now, served, lastOp>>

\* Promise.all has settled: the call returns its result
ReturnResult(c) ==
    /\ c \in DOMAIN inFlight
    /\ inFlight[c].pc = "process"
    /\ inFlight[c].next > Len(inFlight[c].ids)
    /\ inFlight' = [inFlight EXCEPT ![c].pc = "done"]
    /\ UNCHANGED <<orders, statusHistory, materialOrderHistory, now, served, lastOp>>

NextRace ==
    \/ Tick
    \/ \E c \in RaceCalls : StartCall(c)
    \/ \E c \in RaceCalls : CheckStep(c)
    \/ \E c \in RaceCalls : ProcessEntry(c)
    \/ \E c \in RaceCalls : ReturnResult(c)

SpecRace == InitRace /\ [][NextRace]_vars

(***************************************************************************)
(* Material ordering alone, on batches of several orders: two existing     *)
(* orders, and the two with an id no order has between them.               *)
(***************************************************************************)
MixedBatches ==
    {[given |-> TRUE, ids |-> b] : b \in {<<"o1", "o2">>, <<"o1", "o9", "o2">>}}

InitBatch ==
    /\ orders = CreatedOrders(OrderIds).orders
    /\ statusHistory = CreatedOrders(OrderIds).history
    /\ materialOrderHistory = <<>>
    /\ now = 0
    /\ served = 0
    /\ lastOp = Idle
    /\ inFlight = <<>>

OrderBatch ==
    MaterialOrderRequest(MixedBatches, {Undefined, MANAGEMENT_OVERRIDE_CODE},
                         MaxRequests)

NextBatch ==
    \/ Tick
    \/ Respond
    \/ OrderBatch

SpecBatch == InitBatch /\ [][NextBatch]_vars

(***************************************************************************)
(* The authorization gate called on its own, between material orders that  *)
(* fill the audit log.                                                     *)
(***************************************************************************)
\* materialOrderingService.verifyManagementAuthorization(overrideCode, userId, reason)
VerifyAuthorization ==
    \E overrideCode \in OverrideCodes, userId \in UserIds, reason \in OverrideReasons :
        /\ Accept
        /\ lastOp' = [name |-> "verifyManagementAuthorization",
                      overrideCode |-> overrideCode, userId |-> userId,
                      reason |-> reason,
                      returned |-> verifyManagementAuthorization(overrideCode),
                      console |-> AuthorizationConsole(overrideCode, userId, reason)]
        /\ UNCHANGED <<orders, statusHistory, materialOrderHistory, now, inFlight>>

GateBatches == {[given |-> TRUE, ids |-> b] : b \in {<<"o1">>, <<"o2", "o1">>}}

OrderBeforeGate == MaterialOrderRequest(GateBatches, OverrideCodes, MaxRequests)

NextGate ==
    \/ Tick
    \/ Respond
    \/ OrderBeforeGate
    \/ VerifyAuthorization

SpecGate == Init /\ [][NextGate]_vars

(***************************************************************************)
(* The order routes alone.                                                 *)
(***************************************************************************)
\* a creation request whose body may name a status
CreateOrderWithStatus == CreateRequest(RequestStatuses \cup {Undefined})

NextRoutes ==
    \/ Respond
    \/ CreateOrderWithStatus
    \/ PatchOrder
    \/ PatchOrderStatus

SpecRoutes == Init /\ [][NextRoutes]_vars

(***************************************************************************)
(* Status transitions of one order, the requested status drawn from the   *)
(* whole enumeration.                                                      *)
(***************************************************************************)
InitTransitions ==
    /\ orders = CreatedOrders({"o1"}).orders
    /\ statusHistory = CreatedOrders({"o1"}).history
    /\ materialOrderHistory = <<>>
    /\ now = 0
    /\ served = 0
    /\ lastOp = Idle
    /\ inFlight = <<>>

AnyTransition == StatusRequest({"o1"}, orderStatusEnum)

NextTransitions ==
    \/ Respond
    \/ AnyTransition

SpecTransitions == InitTransitions /\ [][NextTransitions]_vars

(***************************************************************************)
(* The similarity of two material lists and the similar-materials check,   *)
(* applied to lists and notes drawn from the samples below.                *)
(***************************************************************************)
R123 == Material("Roma Moulding", "R123")
R456 == Material("Roma Moulding", "R456")
L9 == Material("Larson Juhl", "L9")
C7 == Material("Crescent", "C7")
MuseumGlass == Material("Guardian Glass", "Museum Glass")
A1 == Material("Alpha Moulding", "A1")

\* material lists: empty, one entry, an entry twice, the same entries in
\* another order, and lists that share four entries of five and five of six
MaterialLists ==
    {<<>>, <<R123>>, <<R456>>, <<L9>>, <<R123, R123>>, <<R123, C7>>, <<C7, R123>>,
     <<C7, MuseumGlass>>, <<R123, C7, MuseumGlass>>,
     <<R123, L9, C7, MuseumGlass>>,
     <<R123, L9, C7, MuseumGlass, R456>>,
     <<MuseumGlass, C7, L9, R456, R123, A1>>}

SimilarityNotes == {"", "Frame: R123", "Frame: R456", "Mat: C7 Museum Glass", FullNotes}

\* calculateMaterialSimilarity(materials1, materials2)
CompareMaterials ==
    \E materials1 \in MaterialLists, materials2 \in MaterialLists :
        /\ lastOp = Idle
        /\ lastOp' = [name |-> "calculateMaterialSimilarity",
                      materials1 |-> materials1, materials2 |-> materials2,
                      similarity |-> calculateMaterialSimilarity(materials1, materials2)]
        /\ UNCHANGED <<orders, statusHistory, materialOrderHistory, now, served, inFlight>>

\* checkSimilarMaterials([order], [record]) for an order with the given notes
\* and an audit record whose orderDetails list the given materials
CheckSimilar ==
    \E notes \in SimilarityNotes, materials \in MaterialLists :
        /\ lastOp = Idle
        /\ lastOp' = [name |-> "checkSimilarMaterials",
                      notes |-> notes, materials |-> materials,
                      fires |-> checkSimilarMaterials(
                                    <<[found |-> TRUE, id |-> "o1",
                                       status |-> "ORDER_PROCESSED", notes |-> notes]>>,
                                    <<[orderId |-> "o2",
                                       orderDetails |-> [materials |-> materials]]>>)]
        /\ UNCHANGED <<orders, statusHistory, materialOrderHistory, now, served, inFlight>>

NextSimilarity ==
    \/ Respond
    \/ CompareMaterials
    \/ CheckSimilar

SpecSimilarity == InitBatch /\ [][NextSimilarity]_vars

(***************************************************************************)
(* The part of checkDuplicateOrders after the audit-log query, applied to  *)
(* rows the query can return: records as logMaterialOrder writes them, and *)
(* records whose orderDetails name materials or a vendor.                  *)
(***************************************************************************)
MaxRows == 2   \* rows of the query result, beside the result at the vendor cap

RowSamples ==
    {AuditRecord("o1", "u1", 0, FALSE),
     AuditRecord("o2", "u1", 0, TRUE),
     [orderId |-> "o3", orderedBy |-> "u1", orderedAt |-> 0, wasOverridden |-> FALSE,
      orderDetails |-> [materials |-> <<Material("Roma Moulding", "R123")>>]],
     [orderId |-> "o3", orderedBy |-> "u1", orderedAt |-> 0, wasOverridden |-> FALSE,
      orderDetails |-> [vendor |-> "Roma Moulding"]]}

\* MAX_DAILY_ORDERS_PER_VENDOR rows that name the vendor
RowsAtVendorCap ==
    [j \in 1..MAX_DAILY_ORDERS_PER_VENDOR |->
        [orderId |-> "o3", orderedBy |-> "u1", orderedAt |-> 0, wasOverridden |-> FALSE,
         orderDetails |-> [vendor |-> "Roma Moulding"]]]

QueryResults ==
    UNION {[1..n -> RowSamples] : n \in 0..MaxRows} \cup {RowsAtVendorCap}

\* checkDuplicateOrders(orderIds), the query answering `recentOrders`
CheckBatch ==
    \E orderIds \in Batches, recentOrders \in QueryResults :
        /\ lastOp = Idle
        /\ lastOp' = [name |-> "checkDuplicateOrders", orderIds |-> orderIds,
                      recentOrders |-> recentOrders,
                      check |-> DuplicateOrderCheck(
                                   orderIds, recentOrders,
                                   [i \in DOMAIN orderIds |-> getOrder(orders, orderIds[i])])]
        /\ UNCHANGED <<orders, statusHistory, materialOrderHistory, now, served, inFlight>>

NextCheck ==
    \/ Respond
    \/ CheckBatch

SpecCheck == InitVendor /\ [][NextCheck]_vars

(***************************************************************************)
(* Properties.  A processMaterialOrder call is the step from an idle       *)
(* server to lastOp.name = "processMaterialOrder"; the unprimed store is   *)
(* the store the call found, lastOp' holds its arguments and its result.   *)
(***************************************************************************)
MaterialOrderCall == lastOp.name = "idle" /\ lastOp'.name = "processMaterialOrder"
MaterialOrderAnswered == lastOp.name = "processMaterialOrder"

\* the fail-safe result, field by field
IsFailSafe(check) ==
    /\ check.isDuplicate = FALSE
    /\ check.existingOrders = <<>>
    /\ check.requiresOverride = TRUE
    /\ check.riskLevel = "CRITICAL"

\* C1: when the detector reports requiresOverride = true and the call carries
\* no override code, the call returns success = false, requiresOverride = true
\* and the computed duplicateCheck, and the orders, the status history and the
\* audit log are what they were.
C1_BlockedCallChangesNothing ==
    [][(/\ MaterialOrderCall
        /\ lastOp'.body.given
        /\ lastOp'.overrideCode = Undefined
        /\ checkDuplicateOrders(lastOp'.body.ids, orders, materialOrderHistory,
                                now, lastOp'.fault).requiresOverride)
       => (/\ lastOp'.result.success = FALSE
           /\ "requiresOverride" \in DOMAIN lastOp'.result
           /\ lastOp'.result.requiresOverride = TRUE
           /\ lastOp'.result.duplicateCheck =
                 checkDuplicateOrders(lastOp'.body.ids, orders, materialOrderHistory,
                                      now, lastOp'.fault)
           /\ orders' = orders
           /\ statusHistory' = statusHistory
           /\ materialOrderHistory' = materialOrderHistory)]_vars

\* a call for an existing order was blocked for want of an override code
C1_Witness ==
    /\ MaterialOrderAnswered
    /\ lastOp.step = "blocked"
    /\ lastOp.overrideCode = Undefined
    /\ Len(lastOp.body.ids) > 0
    /\ lastOp.body.ids[1] \in DOMAIN orders

InWindowMatches(orderIds) ==
    SelectSeq(materialOrderHistory,
              LAMBDA r : /\ r.orderedAt >= now - DUPLICATE_THRESHOLD_HOURS
                         /\ r.orderId \in Range(orderIds))

\* C3: for every batch and audit log, when an id of the batch is the orderId
\* of an audit record less than 24 hours old, checkDuplicateOrders (its store
\* reads succeeding) returns isDuplicate = true, riskLevel CRITICAL,
\* requiresOverride = true and existingOrders = exactly those records.
C3_ExactDuplicateIsCritical ==
    \A b \in Batches :
        Len(InWindowMatches(b)) > 0 =>
            checkDuplicateOrders(b, orders, materialOrderHistory, now, NoFault) =
                [isDuplicate |-> TRUE, existingOrders |-> InWindowMatches(b),
                 requiresOverride |-> TRUE, riskLevel |-> "CRITICAL"]

\* C4: when a store read of checkDuplicateOrders fails (the audit-log query or
\* one order lookup), the duplicateCheck is exactly the fail-safe result:
\* riskLevel CRITICAL, requiresOverride true, isDuplicate false, existingOrders
\* empty.
C4_FailedReadIsFailSafe ==
    (/\ MaterialOrderAnswered
     /\ lastOp.body.given
     /\ lastOp.fault[1] \in {"query", "lookup"})
    => (/\ "duplicateCheck" \in DOMAIN lastOp.result
        /\ IsFailSafe(lastOp.result.duplicateCheck))

\* the lookup of the second order of a batch failed after audit records exist
C4_Witness ==
    /\ MaterialOrderAnswered
    /\ lastOp.fault = <<"lookup", 2>>
    /\ Len(materialOrderHistory) > 0
    /\ IsFailSafe(lastOp.result.duplicateCheck)

\* a failure of the call that is not the failure of one order's task: a
\* store read of the detector, or an exception of the orchestrator itself
NonPerOrderFailure ==
    /\ MaterialOrderAnswered
    /\ (~lastOp.body.given \/ lastOp.fault[1] \in {"query", "lookup"})

\* C5 as stated: the call never throws, and every failure that is not a
\* per-order failure yields success = false carrying the fail-safe
\* duplicateCheck (stated for the batches whose orders all exist).
C5_NonPerOrderFailureFails ==
    /\ MaterialOrderAnswered =>
          lastOp.step # "threw" /\ "success" \in DOMAIN lastOp.result
    /\ (NonPerOrderFailure /\ Range(lastOp.body.ids) \subseteq DOMAIN orders) =>
          /\ lastOp.result.success = FALSE
          /\ IsFailSafe(lastOp.result.duplicateCheck)

\* C5 as the code has it: the call never throws, whichever store call fails;
\* a failure that is not a per-order failure yields the fail-safe
\* duplicateCheck, with success = false unless the detector's failure is
\* overridden with the configured code, and an exception of the orchestrator
\* itself always yields success = false.
C5_NeverThrowsFailSafe ==
    /\ MaterialOrderAnswered =>
          /\ lastOp.step # "threw"
          /\ {"success", "message", "duplicateCheck"} \subseteq DOMAIN lastOp.result
    /\ NonPerOrderFailure =>
          /\ IsFailSafe(lastOp.result.duplicateCheck)
          /\ lastOp.result.success =>
                lastOp.body.given /\ lastOp.overrideCode = MANAGEMENT_OVERRIDE_CODE

\* the orchestrator's own exception was caught and answered
C5_Witness ==
    /\ MaterialOrderAnswered
    /\ lastOp.step = "catch"
    /\ lastOp.result.success = FALSE
    /\ IsFailSafe(lastOp.result.duplicateCheck)

\* C6: every change of an order's status appends exactly one status history
\* entry for that order; here for the change to MATERIALS_ORDERED made by
\* processMaterialOrder: one entry is appended, its fromStatus the previous
\* status and its toStatus the new one.
C6_MaterialOrderAppendsHistory ==
    [][MaterialOrderCall =>
        \A id \in DOMAIN orders :
            orders'[id].status # orders[id].status =>
                LET before == HistoryOf(statusHistory, id)
                    after == HistoryOf(statusHistory', id)
                IN /\ Len(after) = Len(before) + 1
                   /\ SubSeq(after, 1, Len(before)) = before
                   /\ after[Len(after)].fromStatus = orders[id].status
                   /\ after[Len(after)].toStatus = orders'[id].status]_vars

\* a request of one of the two order-update endpoints, no call of which fails
StatusTransitionCall ==
    /\ lastOp.name = "idle"
    /\ lastOp'.name \in {"patchOrder", "patchOrderStatus"}
    /\ lastOp'.fault = "none"

\* C7: a status transition (through either endpoint) whose target equals the
\* order's current status appends no status history entry, so two consecutive
\* transitions to the same status append one entry in total.
C7_SameStatusAppendsNothing ==
    [][(/\ StatusTransitionCall
        /\ lastOp'.id \in DOMAIN orders
        /\ lastOp'.status = orders[lastOp'.id].status)
       => statusHistory' = statusHistory]_vars

\* the batch positions whose order was set to MATERIALS_ORDERED by the call
\* that lastOp answers (no call creates or deletes an order)
ProcessedPositions ==
    {i \in DOMAIN lastOp.body.ids :
        /\ lastOp.body.ids[i] \in DOMAIN orders
        /\ lastOp.fault # <<"update", i>>}

\* the success and failure counts the message reports
ReportedSucceeded == lastOp.result.message[2]
ReportedFailed ==
    IF Len(lastOp.result.message) >= 5 /\ lastOp.result.message[4] = ","
    THEN lastOp.result.message[5] ELSE 0

\* C8: a call that reaches per-order processing on a batch of N ids of which
\* M are processed successfully returns success = true iff M > 0, and its
\* message reports M as the success count and N - M as the failure count.
C8_ResultCountsProcessedOrders ==
    (MaterialOrderAnswered /\ lastOp.step = "processed") =>
        LET N == Len(lastOp.body.ids)
            M == Cardinality(ProcessedPositions)
        IN /\ lastOp.result.success = (M > 0)
           /\ ReportedSucceeded = M
           /\ ReportedFailed = N - M

\* C9: an order id that is not in the order store is a failed batch item:
\* the failure count covers it, the success count does not, and the call
\* writes no audit record for it.
C9_MissingOrderIsFailedItem ==
    [][(MaterialOrderCall /\ lastOp'.step = "processed") =>
        LET ids == lastOp'.body.ids
            missing == {i \in DOMAIN ids : ids[i] \notin DOMAIN orders}
            appended == SubSeq(materialOrderHistory',
                               Len(materialOrderHistory) + 1,
                               Len(materialOrderHistory'))
        IN /\ lastOp'.result.message[2] <= Len(ids) - Cardinality(missing)
           /\ missing # {} =>
                 /\ Len(lastOp'.result.message) >= 5
                 /\ lastOp'.result.message[5] >= Cardinality(missing)
           /\ \A j \in DOMAIN appended : appended[j].orderId \in DOMAIN orders]_vars

\* C10: when materials were ordered for order A less than 24 hours ago and a
\* different order B, not itself ordered in that time, has the same non-empty
\* material signature, checkDuplicateOrders of B (its store reads succeeding)
\* returns riskLevel HIGH, requiresOverride = true and isDuplicate = false.
C10_SameFrameIsHighRisk ==
    \A a \in DOMAIN orders, b \in DOMAIN orders :
        (/\ a # b
         /\ \E j \in DOMAIN materialOrderHistory :
               /\ materialOrderHistory[j].orderId = a
               /\ now - materialOrderHistory[j].orderedAt < DUPLICATE_THRESHOLD_HOURS
         /\ Len(InWindowMatches(<<b>>)) = 0
         /\ extractMaterialsFromNotes(orders[b].notes) # <<>>
         /\ extractMaterialsFromNotes(orders[b].notes)
               = extractMaterialsFromNotes(orders[a].notes))
        => LET check == checkDuplicateOrders(<<b>>, orders, materialOrderHistory,
                                             now, NoFault)
           IN /\ check.riskLevel = "HIGH"
              /\ check.requiresOverride = TRUE
              /\ check.isDuplicate = FALSE

\* the audit records of the last DUPLICATE_THRESHOLD_HOURS hours
InWindow ==
    SelectSeq(materialOrderHistory,
              LAMBDA r : r.orderedAt >= now - DUPLICATE_THRESHOLD_HOURS)

\* the orders of a batch as the store holds them
OrdersOfBatch(orderIds) == [i \in DOMAIN orderIds |-> getOrder(orders, orderIds[i])]

LowRiskCheck ==
    [isDuplicate |-> FALSE, existingOrders |-> <<>>,
     requiresOverride |-> FALSE, riskLevel |-> "LOW"]

\* C11: for a batch none of whose ids is on an audit record of the last 24
\* hours, none of whose orders has a material signature more than 0.8 similar
\* to a recent record's material list, and none of whose vendors has reached
\* the daily cap, checkDuplicateOrders (no store read failing) returns
\* riskLevel LOW, requiresOverride = false and isDuplicate = false (stated
\* for the non-empty batches of existing orders).
C11_UnrelatedBatchIsLowRisk ==
    [][(/\ MaterialOrderCall
        /\ lastOp'.body.given
        /\ lastOp'.body.ids # <<>>
        /\ Range(lastOp'.body.ids) \subseteq DOMAIN orders
        /\ lastOp'.fault[1] \notin {"query", "lookup"}
        /\ Len(InWindowMatches(lastOp'.body.ids)) = 0
        /\ ~checkSimilarMaterials(OrdersOfBatch(lastOp'.body.ids), InWindow)
        /\ ~checkVendorOrderLimits(OrdersOfBatch(lastOp'.body.ids), InWindow))
       => lastOp'.result.duplicateCheck = LowRiskCheck]_vars

\* the audit records a step appends
AppendedRecords ==
    SubSeq(materialOrderHistory', Len(materialOrderHistory) + 1,
           Len(materialOrderHistory'))

\* C13: the audit records a processMaterialOrder call appends are as many as
\* the successes it reports, and each carries an id of the batch, the caller
\* as orderedBy and wasOverridden = whether an override code was supplied
\* (stated for the batches of existing orders).
C13_OneRecordPerReportedSuccess ==
    [][(/\ MaterialOrderCall
        /\ lastOp'.step = "processed"
        /\ Range(lastOp'.body.ids) \subseteq DOMAIN orders) =>
        /\ Len(AppendedRecords) = lastOp'.result.message[2]
        /\ \A j \in DOMAIN AppendedRecords :
              /\ AppendedRecords[j].orderId \in Range(lastOp'.body.ids)
              /\ AppendedRecords[j].orderedBy = lastOp'.userId
              /\ AppendedRecords[j].wasOverridden = (lastOp'.overrideCode # Undefined)]_vars

\* C14: in every reachable state the status of every order is one of the ten
\* values of the status enumeration.
C14_StatusInClosedSet ==
    \A id \in DOMAIN orders : orders[id].status \in orderStatusEnum

\* C15: when the notification dispatch of a status transition fails, the
\* order has its new status, the history has the entry of the transition, and
\* the request answers success.
C15_DispatchFailureKeepsTransition ==
    [][(/\ lastOp.name = "idle"
        /\ lastOp'.name = "patchOrderStatus"
        /\ lastOp'.fault \in SendStatusUpdateFailures)
       => (/\ orders'[lastOp'.id].status = lastOp'.status
           /\ Len(statusHistory') = Len(statusHistory) + 1
           /\ statusHistory'[Len(statusHistory')].orderId = lastOp'.id
           /\ statusHistory'[Len(statusHistory')].toStatus = lastOp'.status
           /\ lastOp'.http = 200)]_vars

\* C16: a processMaterialOrder call with an empty order id list is rejected
\* before the detector or the store is called: it makes no store call.
C16_EmptyBatchMakesNoStoreCall ==
    (/\ MaterialOrderAnswered
     /\ lastOp.body.given
     /\ lastOp.body.ids = <<>>)
    => (lastOp.calls = <<>> /\ lastOp.result.success = FALSE)

\* C18: in a run of processMaterialOrder calls one after the other, an audit
\* record written by a call without override code is never the second record
\* of its order within 24 hours, also when one batch lists an id twice.
C18_NoSecondRecordWithoutOverride ==
    \A i \in DOMAIN materialOrderHistory, j \in DOMAIN materialOrderHistory :
        (/\ i < j
         /\ materialOrderHistory[i].orderId = materialOrderHistory[j].orderId
         /\ ~materialOrderHistory[j].wasOverridden)
        => materialOrderHistory[j].orderedAt - materialOrderHistory[i].orderedAt
              >= DUPLICATE_THRESHOLD_HOURS

\* C19: an audit record with wasOverridden = true is written only by a call
\* whose override code equals the configured secret: a call with a wrong
\* override code never produces a record marked as overridden (stated for the
\* batches of existing orders).
C19_OverriddenOnlyWhenVerified ==
    [][(MaterialOrderCall /\ Range(lastOp'.body.ids) \subseteq DOMAIN orders) =>
        \A j \in DOMAIN AppendedRecords :
            AppendedRecords[j].wasOverridden =>
                verifyManagementAuthorization(lastOp'.overrideCode)]_vars

\* the toStatus of the last status history entry of each order is the
\* order's status
HistoryTailIsStatus ==
    \A id \in DOMAIN orders :
        LET h == HistoryOf(statusHistory, id)
        IN Len(h) > 0 /\ h[Len(h)].toStatus = orders[id].status

\* C20: whenever no request is in progress, the toStatus of the last status
\* history entry of each order is the order's status; here after
\* processMaterialOrder: a call that starts in such a state ends in one.
C20_HistoryTailIsStatus ==
    [][(MaterialOrderCall /\ HistoryTailIsStatus) => HistoryTailIsStatus']_vars

\* the vendors of the order an audit record was written for
VendorsOfOrder(id) ==
    IF id \in DOMAIN orders
    THEN {m.vendor : m \in Range(extractMaterialsFromNotes(orders[id].notes))}
    ELSE {}

\* the material orders of the last 24 hours placed with a vendor
RecentOrdersWithVendor(vendor) ==
    Cardinality({j \in DOMAIN InWindow : vendor \in VendorsOfOrder(InWindow[j].orderId)})

\* no order of the last 24 hours has a material signature more than 0.8
\* similar to the candidate's
NoSimilarRecentOrder(id) ==
    \A j \in DOMAIN InWindow :
        \/ InWindow[j].orderId \notin DOMAIN orders
        \/ ~Above80(calculateMaterialSimilarity(
               extractMaterialsFromNotes(orders[id].notes),
               extractMaterialsFromNotes(orders[InWindow[j].orderId].notes)))

\* C12: when a candidate order is no exact duplicate and has no
\* similar-materials match, and a vendor extracted from its notes already has
\* at least MAX_DAILY_ORDERS_PER_VENDOR material orders recorded by
\* processMaterialOrder in the last 24 hours, checkDuplicateOrders (its store
\* reads succeeding) returns riskLevel MEDIUM and requiresOverride = true.
C12_VendorAtCapIsMediumRisk ==
    \A id \in DOMAIN orders :
        (/\ Len(InWindowMatches(<<id>>)) = 0
         /\ NoSimilarRecentOrder(id)
         /\ ~checkSimilarMaterials(OrdersOfBatch(<<id>>), InWindow)
         /\ \E v \in VendorsOfOrder(id) :
               RecentOrdersWithVendor(v) >= MAX_DAILY_ORDERS_PER_VENDOR)
        => LET check == checkDuplicateOrders(<<id>>, orders, materialOrderHistory,
                                             now, NoFault)
           IN check.riskLevel = "MEDIUM" /\ check.requiresOverride = TRUE

\* C17: two concurrent processMaterialOrder calls for overlapping order ids,
\* neither with an override code, can both pass the duplicate check and both
\* write an audit record for the same order: a call that has passed its
\* check writes the record of each of its batch entries whatever the audit
\* log holds by then; no lock and no second check stands in the way.
C17_CheckedCallWritesRegardless ==
    [][\A c \in DOMAIN inFlight :
          (/\ inFlight[c].pc = "process"
           /\ inFlight'[c].pc = "process"
           /\ inFlight'[c].next = inFlight[c].next + 1)
          => /\ Len(materialOrderHistory') = Len(materialOrderHistory) + 1
             /\ materialOrderHistory'[Len(materialOrderHistory')].orderId
                   = inFlight[c].ids[inFlight[c].next]
             /\ materialOrderHistory'[Len(materialOrderHistory')].wasOverridden
                   = (inFlight[c].overrideCode # Undefined)]_vars

\* both calls, without override code, passed the check before any record was
\* written, and each wrote a record for order o1
C17_Witness ==
    /\ DOMAIN inFlight = RaceCalls
    /\ \A c \in RaceCalls :
          /\ inFlight[c].pc = "done"
          /\ inFlight[c].overrideCode = Undefined
          /\ "o1" \in Range(inFlight[c].ids)
          /\ inFlight[c].recordsAtCheck = 0
          /\ ~inFlight[c].check.requiresOverride
    /\ Cardinality({j \in DOMAIN materialOrderHistory :
                       /\ materialOrderHistory[j].orderId = "o1"
                       /\ ~materialOrderHistory[j].wasOverridden}) = 2

\* the batch positions whose task met a failure: updateOrder threw, or the
\* audit insert failed
FailedPositions(op) ==
    {i \in DOMAIN op.body.ids : op.fault \in {<<"update", i>>, <<"insert", i>>}}

\* C21: a processMaterialOrder call that reaches per-order processing makes
\* one update attempt per batch entry and reports one result per entry, and
\* every entry other than the one whose processing failed has its order set
\* to MATERIALS_ORDERED and its audit record appended.
C21_FailureLeavesOthersProcessed ==
    [][(MaterialOrderCall /\ lastOp'.step = "processed") =>
        LET ids == lastOp'.body.ids
            calls == lastOp'.calls
            others == DOMAIN ids \ FailedPositions(lastOp')
        IN /\ Cardinality({k \in DOMAIN calls : calls[k] = "updateOrder"}) = Len(ids)
           /\ \A j \in others :
                 /\ ids[j] \in DOMAIN orders =>
                       orders'[ids[j]].status = "MATERIALS_ORDERED"
                 /\ Cardinality({k \in DOMAIN AppendedRecords :
                                    AppendedRecords[k].orderId = ids[j]})
                       = Cardinality({m \in others : ids[m] = ids[j]})]_vars

\* updateOrder threw for o1, first of the batch, and o2 was set to
\* MATERIALS_ORDERED and logged all the same
C21_Witness ==
    /\ MaterialOrderAnswered
    /\ lastOp.step = "processed"
    /\ lastOp.body.ids = <<"o1", "o2">>
    /\ lastOp.fault = <<"update", 1>>
    /\ orders["o1"].status = "ORDER_PROCESSED"
    /\ orders["o2"].status = "MATERIALS_ORDERED"
    /\ Len(materialOrderHistory) = 1
    /\ materialOrderHistory[1].orderId = "o2"

\* a direct call of the authorization gate, and its answer
GateCall == lastOp.name = "idle" /\ lastOp'.name = "verifyManagementAuthorization"
GateAnswered == lastOp.name = "verifyManagementAuthorization"

\* C22: verifyManagementAuthorization returns true exactly when the override
\* code equals the configured secret, and in both cases the orders, the
\* status history and the audit log are what they were.
C22_GateDecidesByCodeAndWritesNothing ==
    [][GateCall =>
        /\ lastOp'.returned = (lastOp'.overrideCode = MANAGEMENT_OVERRIDE_CODE)
        /\ orders' = orders
        /\ statusHistory' = statusHistory
        /\ materialOrderHistory' = materialOrderHistory]_vars

\* the gate authorized the configured code while orders and audit records
\* existed
C22_Witness ==
    /\ GateAnswered
    /\ lastOp.overrideCode = MANAGEMENT_OVERRIDE_CODE
    /\ lastOp.returned = TRUE
    /\ DOMAIN orders # {}
    /\ Len(statusHistory) > 0
    /\ Len(materialOrderHistory) > 0

\* a console line that records an override attempt with its actor, its
\* reason and its outcome
AttemptLine(line, userId, reason, outcome) ==
    /\ Len(line) >= 6
    /\ line[2] = outcome
    /\ line[4] = userId
    /\ line[6] = reason

\* C30: every verifyManagementAuthorization call with a wrong override code
\* returns false and records a denied attempt carrying the actor id and the
\* reason, and records no authorized attempt.
C30_WrongCodeLogsDeniedAttempt ==
    (/\ GateAnswered
     /\ lastOp.overrideCode \notin {Undefined, MANAGEMENT_OVERRIDE_CODE}) =>
        /\ lastOp.returned = FALSE
        /\ \E k \in DOMAIN lastOp.console :
              AttemptLine(lastOp.console[k], lastOp.userId, lastOp.reason, "denied")
        /\ \A k \in DOMAIN lastOp.console :
              ~AttemptLine(lastOp.console[k], lastOp.userId, lastOp.reason, "authorized")

\* a request of one of the two order-update endpoints
OrderUpdateCall ==
    /\ lastOp.name = "idle"
    /\ lastOp'.name \in {"patchOrder", "patchOrderStatus"}

\* C23: a status transition requested for an order id that does not exist,
\* through either endpoint, answers 404 Not Found when the lookup answers, and
\* in every case changes no order, appends no status history entry and
\* dispatches no notification.
C23_MissingOrderIsNotFound ==
    [][(OrderUpdateCall /\ lastOp'.id \notin DOMAIN orders) =>
        /\ lastOp'.fault = "none" => lastOp'.http = 404
        /\ lastOp'.http \in {404, 500}
        /\ orders' = orders
        /\ statusHistory' = statusHistory
        /\ ~lastOp'.dispatched]_vars

\* a status transition for an id no order has was answered 404 while other
\* orders and their history existed
C23_Witness ==
    /\ lastOp.name = "patchOrderStatus"
    /\ lastOp.id \notin DOMAIN orders
    /\ lastOp.status \in orderStatusEnum
    /\ lastOp.http = 404
    /\ DOMAIN orders # {}
    /\ Len(statusHistory) > 0

\* a creation request that inserted its order
OrderCreated ==
    /\ lastOp.name = "idle"
    /\ lastOp'.name = "createOrder"
    /\ lastOp'.id \notin DOMAIN orders
    /\ lastOp'.id \in DOMAIN orders'

\* the history entry POST /api/orders writes for a new order
CreationEntry(id, entry) ==
    /\ entry.orderId = id
    /\ entry.fromStatus = Undefined
    /\ entry.toStatus = "ORDER_PROCESSED"

StatusRouteCall ==
    /\ lastOp.name = "idle"
    /\ lastOp'.name = "patchOrderStatus"
    /\ lastOp'.fault \in {"none"} \cup SendStatusUpdateFailures

\* C25: for every pair of distinct statuses s and t of the enumeration,
\* s = PICKED_UP included, a transition of an existing order from s to t sets
\* the status to t and appends one history entry with fromStatus = s and
\* toStatus = t, and the request is answered 200 when no call of the handler
\* fails: no adjacency between statuses is enforced.
C25_AnyTransitionIsAccepted ==
    [][(/\ StatusRouteCall
        /\ lastOp'.id \in DOMAIN orders
        /\ orders[lastOp'.id].status \in orderStatusEnum
        /\ lastOp'.status \in orderStatusEnum
        /\ lastOp'.status # orders[lastOp'.id].status)
       => LET id == lastOp'.id
              s == orders[id].status
              t == lastOp'.status
          IN /\ orders'[id].status = t
             /\ Len(statusHistory') = Len(statusHistory) + 1
             /\ SubSeq(statusHistory', 1, Len(statusHistory)) = statusHistory
             /\ statusHistory'[Len(statusHistory')].orderId = id
             /\ statusHistory'[Len(statusHistory')].fromStatus = s
             /\ statusHistory'[Len(statusHistory')].toStatus = t
             /\ lastOp'.fault = "none" => lastOp'.http = 200]_vars

\* an order that was picked up went back to ORDER_PROCESSED
C25_Witness ==
    /\ lastOp.name = "patchOrderStatus"
    /\ lastOp.fault = "none"
    /\ lastOp.http = 200
    /\ lastOp.status = "ORDER_PROCESSED"
    /\ orders["o1"].status = "ORDER_PROCESSED"
    /\ Len(statusHistory) = 3
    /\ statusHistory[3].fromStatus = "PICKED_UP"
    /\ statusHistory[3].toStatus = "ORDER_PROCESSED"

\* C26: the audit records (of existing orders) that take part in the checks
\* are exactly those whose orderedAt is at or after the current time minus 24 hours, and an
\* order is reported as an exact duplicate (the store reads succeeding)
\* exactly when it has such a record.
C26_WindowIsLastDay ==
    /\ \A j \in DOMAIN materialOrderHistory :
          materialOrderHistory[j].orderId \in DOMAIN orders =>
             (materialOrderHistory[j]
                 \in Range(RecentOrders(materialOrderHistory, CutoffTime(now))))
             = (materialOrderHistory[j].orderedAt >= now - DUPLICATE_THRESHOLD_HOURS)
    /\ \A id \in DOMAIN orders :
          checkDuplicateOrders(<<id>>, orders, materialOrderHistory, now,
                               NoFault).isDuplicate
             = (Len(InWindowMatches(<<id>>)) > 0)

\* C29: every status history entry other than a creation entry (which has no
\* fromStatus) records a change: its fromStatus differs from its toStatus.
C29_EntryRecordsAChange ==
    \A k \in DOMAIN statusHistory :
        statusHistory[k].fromStatus # Undefined =>
            statusHistory[k].fromStatus # statusHistory[k].toStatus

\* the vendor:item pairs of a material list
PairsOf(materials) == {m.vendor \o ":" \o m.item : m \in Range(materials)}

\* two fractions are the same number
SameValue(x, y) == x.num * y.den = y.num * x.den

\* C27: calculateMaterialSimilarity is the size of the intersection over the
\* size of the union of the vendor:item pairs of its two lists: 1 for
\* identical non-empty signatures, 0 for disjoint signatures and when either
\* list is empty, and the same value with the arguments swapped; and the
\* similar-materials check fires exactly when this value is above 0.8.
C27_SimilarityIsJaccard ==
    /\ lastOp.name = "calculateMaterialSimilarity" =>
          LET p1 == PairsOf(lastOp.materials1)
              p2 == PairsOf(lastOp.materials2)
              sim == lastOp.similarity
          IN /\ (p1 # {} /\ p2 # {}) =>
                   SameValue(sim, [num |-> Cardinality(p1 \cap p2),
                                   den |-> Cardinality(p1 \cup p2)])
             /\ (p1 = p2 /\ p1 # {}) => SameValue(sim, [num |-> 1, den |-> 1])
             /\ (p1 \cap p2 = {}) => sim.num = 0
             /\ (lastOp.materials1 = <<>> \/ lastOp.materials2 = <<>>) => sim.num = 0
             /\ SameValue(sim, calculateMaterialSimilarity(lastOp.materials2,
                                                          lastOp.materials1))
    /\ lastOp.name = "checkSimilarMaterials" =>
          LET p1 == PairsOf(extractMaterialsFromNotes(lastOp.notes))
              p2 == PairsOf(lastOp.materials)
          IN lastOp.fires =
                (/\ p1 # {} /\ p2 # {}
                 /\ 10 * Cardinality(p1 \cap p2) > 8 * Cardinality(p1 \cup p2))

\* two lists that share four of their five pairs were compared: the value
\* is 0.8, which is not above the threshold
C27_Witness ==
    /\ lastOp.name = "calculateMaterialSimilarity"
    /\ Len(lastOp.materials1) = 4
    /\ Len(lastOp.materials2) = 5
    /\ lastOp.similarity = [num |-> 4, den |-> 5]
    /\ ~Above80(lastOp.similarity)

\* C28: every DuplicateOrderCheck that checkDuplicateOrders builds outside
\* its error path has requiresOverride = true exactly when riskLevel is not
\* LOW, riskLevel CRITICAL when isDuplicate is true, and a non-empty
\* existingOrders exactly when isDuplicate is true.
C28_CheckFieldsAgree ==
    lastOp.name = "checkDuplicateOrders" =>
        /\ lastOp.check.requiresOverride = (lastOp.check.riskLevel # "LOW")
        /\ lastOp.check.isDuplicate => lastOp.check.riskLevel = "CRITICAL"
        /\ (lastOp.check.existingOrders # <<>>) = lastOp.check.isDuplicate

\* a check of a batch none of whose orders has a recent record, against
\* recent records of other orders, found the vendor at its cap
C28_Witness ==
    /\ lastOp.name = "checkDuplicateOrders"
    /\ lastOp.orderIds = <<"o1">>
    /\ Len(lastOp.recentOrders) = MAX_DAILY_ORDERS_PER_VENDOR
    /\ lastOp.check = [isDuplicate |-> FALSE, existingOrders |-> <<>>,
                       requiresOverride |-> TRUE, riskLevel |-> "MEDIUM"]

====
